---- MODULE Spec2Model ----
(***************************************************************************)
(* A model of spotify-dbus (src/src/spotify.c): the typed metadata store   *)
(* (MetadataArray), the recursive decoder of the D-Bus reply               *)
(* (process_variant), the fetch loop (get_dbus_metadata) and the two       *)
(* commands.                                                               *)
(*                                                                         *)
(* Memory is modelled at byte level: a C string is the sequence of its     *)
(* bytes (a 0 byte ends it), a fixed-width value is the sequence of its    *)
(* bytes in memory.  Allocation (strdup, malloc, a new D-Bus message) is   *)
(* assumed to succeed.  An output stream is the sequence of printf calls   *)
(* made on it, each recorded with its format (a string of the source) and  *)
(* its arguments (the bytes of a string or of a value; <<n>> for an int n). *)
(***************************************************************************)
EXTENDS Integers, Sequences, FiniteSets, TLC

VARIABLES
    pc,        \* position of the running program (or of the API client)
    argv,      \* the command-line arguments after the program name
    metadata,  \* the MetadataArray: [meta, curIndex]
    stdout,    \* printf calls on stdout, in order
    stderr,    \* fprintf calls on stderr, in order
    key,       \* get_dbus_metadata's local `key` (the current dict entry's key)
    variant,   \* the tagged value under the iterator `variant`
    reply,     \* the dict entries the reply iterator has passed, in order
    artist,    \* command_track's local `artist`: <<>> is NULL, <<s>> points to s
    title,     \* command_track's local `title`
    ret1,      \* command_track's local `ret1`
    ret2,      \* command_track's local `ret2`
    retval,    \* the local `retval` of the command and of main
    exitCode,  \* the process exit status, meaningful once pc = "exited"
    ops,       \* how many times each store function, and the remote call, was made
    call       \* the last call made on the store API and what it returned

vars == <<pc, argv, metadata, stdout, stderr, key, variant, reply,
          artist, title, ret1, ret2, retval, exitCode, ops, call>>

----------------------------------------------------------------------------
(* Program constants *)

MAXSIZE == 100

\* GetMetadataResult
VALUE_NOT_FOUND == 0
VALUE_FOUND == 1
WRONG_TYPE == 2

\* D-Bus type codes (dbus-protocol.h: the ASCII code of the signature letter)
DBUS_TYPE_INVALID == 0
DBUS_TYPE_STRING == 115
DBUS_TYPE_INT32 == 105
DBUS_TYPE_UINT64 == 116
DBUS_TYPE_DOUBLE == 100
DBUS_TYPE_ARRAY == 97
DBUS_TYPE_INT64 == 120
DBUS_TYPE_VARIANT == 118

----------------------------------------------------------------------------
(* Bounds of the model *)

\* The API client's first MaxVaried inserts are arbitrary; see ClientItems.
MaxVaried == 2

\* The client tries at most MaxOverflow inserts on a full array.
MaxOverflow == 2

\* A reply holds at most MaxEntries dictionary entries.
MaxEntries == 2

\* A tagged value handed to the decoder on its own makes it visit at most
\* MaxNodes values (basic values and arrays, nested or not).
MaxNodes == 4

----------------------------------------------------------------------------
(* libc *)

\* the number of bytes before the first 0 byte at s
strlen(s) ==
    IF \A i \in 1..Len(s) : s[i] # 0
    THEN Len(s)
    ELSE (CHOOSE i \in 1..Len(s) : s[i] = 0 /\ \A j \in 1..(i - 1) : s[j] # 0) - 1

\* a fresh copy of the C string at s: its bytes up to the terminator
strdup(s) == SubSeq(s, 1, strlen(s))

\* the first n bytes at src, copied into a fresh buffer of n bytes
memcpy(src, n) == SubSeq(src, 1, n)

\* 0 when the C strings at a and b are equal, as the source tests it
strcmp(a, b) == IF strdup(a) = strdup(b) THEN 0 ELSE 1

\* one printf/fprintf call: the format and the arguments it is given
Printf(fmt, args) == [fmt |-> fmt, args |-> args]

----------------------------------------------------------------------------
(* The typed value store *)

MetadataItem(k, t, v) == [key |-> k, dbus_type |-> t, value |-> v]

init_metadata_array == [meta |-> <<>>, curIndex |-> 0]

\* arr->meta[i] = item (C index i is position i + 1 of the sequence)
\* the new entry put in front of the others
SetSlotFirst(meta, i, item) == <<item>> \o meta

SetSlot(meta, i, item) ==
    IF i + 1 <= Len(meta) THEN [meta EXCEPT ![i + 1] = item]
                          ELSE Append(meta, item)

\* insert_metadata without the capacity check and its early return
insert_metadata_unchecked(arr, k, dbus_type, value, size) ==
    [arr |-> [meta |-> SetSlot(arr.meta, arr.curIndex,
                         MetadataItem(strdup(k), dbus_type,
                            IF dbus_type = DBUS_TYPE_STRING THEN strdup(value)
                                                            ELSE memcpy(value, size))),
              curIndex |-> arr.curIndex + 1],
     err |-> <<>>]

\* the insert that, on a full array, puts the new entry in the last slot
insert_metadata_keeps_latest(arr, k, dbus_type, value, size) ==
    LET v == IF dbus_type = DBUS_TYPE_STRING THEN strdup(value)
                                             ELSE memcpy(value, size)
    IN IF arr.curIndex >= MAXSIZE
       THEN [arr |-> [arr EXCEPT !.meta[MAXSIZE] = MetadataItem(strdup(k), dbus_type, v)],
             err |-> <<Printf("ERROR: metadata array is full\n", <<>>)>>]
       ELSE [arr |-> [meta |-> SetSlot(arr.meta, arr.curIndex,
                                       MetadataItem(strdup(k), dbus_type, v)),
                      curIndex |-> arr.curIndex + 1],
             err |-> <<>>]

\* Result: the array after the call and what the call wrote on stderr.
insert_metadata(arr, k, dbus_type, value, size) ==
    IF arr.curIndex >= MAXSIZE
    THEN [arr |-> arr,
          err |-> <<Printf("ERROR: metadata array is full\n", <<>>)>>]
    ELSE LET v == IF dbus_type = DBUS_TYPE_STRING
                  THEN strdup(value)
                  ELSE memcpy(value, size)
         IN [arr |-> [meta |-> SetSlot(arr.meta, arr.curIndex,
                                       MetadataItem(strdup(k), dbus_type, v)),
                      curIndex |-> arr.curIndex + 1],
             err |-> <<>>]

\* What one turn of a loop, or a run of turns, comes to: the function
\* returned (with a status and the bytes written through outValue) or the
\* loop goes on.
Return(ret, out) == [returned |-> TRUE, ret |-> ret, outValue |-> out]
GoOn == [returned |-> FALSE, ret |-> VALUE_NOT_FOUND, outValue |-> <<>>]

\* the turn with `continue` in place of `return WRONG_TYPE`
get_value_skip_mismatch(arr, k, dbus_type, i) ==
    LET m == arr.meta[i + 1]
    IN IF strcmp(m.key, k) = 0 /\ m.dbus_type = dbus_type
       THEN IF dbus_type \in {DBUS_TYPE_INT32, DBUS_TYPE_STRING, DBUS_TYPE_UINT64}
            THEN Return(VALUE_FOUND, m.value)
            ELSE Return(VALUE_NOT_FOUND, <<>>)
       ELSE GoOn

\* the turn with a `case DBUS_TYPE_DOUBLE` that copies the 8 bytes
get_value_with_double(arr, k, dbus_type, i) ==
    LET m == arr.meta[i + 1]
    IN IF strcmp(m.key, k) = 0
       THEN IF m.dbus_type # dbus_type
            THEN Return(WRONG_TYPE, <<>>)
            ELSE IF dbus_type \in {DBUS_TYPE_INT32, DBUS_TYPE_STRING,
                                   DBUS_TYPE_UINT64, DBUS_TYPE_DOUBLE}
                 THEN Return(VALUE_FOUND, m.value)
                 ELSE Return(VALUE_NOT_FOUND, <<>>)
       ELSE GoOn

\* the turn that returns only at the last entry of the key
get_value_last_match(arr, k, dbus_type, i) ==
    LET m == arr.meta[i + 1]
    IN IF strcmp(m.key, k) = 0
          /\ \A j \in (i + 2)..arr.curIndex : strcmp(arr.meta[j].key, k) # 0
       THEN IF m.dbus_type # dbus_type
            THEN Return(WRONG_TYPE, <<>>)
            ELSE IF dbus_type \in {DBUS_TYPE_INT32, DBUS_TYPE_STRING, DBUS_TYPE_UINT64}
                 THEN Return(VALUE_FOUND, m.value)
                 ELSE Return(VALUE_NOT_FOUND, <<>>)
       ELSE GoOn

\* the turn with the strcmp test dropped: any entry is taken for a match
get_value_any_key(arr, k, dbus_type, i) ==
    LET m == arr.meta[i + 1]
    IN IF m.dbus_type # dbus_type
       THEN Return(WRONG_TYPE, <<>>)
       ELSE IF dbus_type \in {DBUS_TYPE_INT32, DBUS_TYPE_STRING, DBUS_TYPE_UINT64}
            THEN Return(VALUE_FOUND, m.value)
            ELSE Return(VALUE_NOT_FOUND, <<>>)

\* One turn of get_value's loop, at C index i.
get_value_at(arr, k, dbus_type, i) ==
    LET m == arr.meta[i + 1]
    IN IF strcmp(m.key, k) = 0
       THEN IF m.dbus_type # dbus_type
            THEN Return(WRONG_TYPE, <<>>)
            ELSE CASE dbus_type = DBUS_TYPE_INT32 ->
                        Return(VALUE_FOUND, memcpy(m.value, 4))
                   [] dbus_type = DBUS_TYPE_STRING ->
                        Return(VALUE_FOUND, strdup(m.value))
                   [] dbus_type = DBUS_TYPE_UINT64 ->
                        Return(VALUE_FOUND, memcpy(m.value, 8))
                   [] OTHER ->
                        Return(VALUE_NOT_FOUND, <<>>)
       ELSE GoOn

\* The turns of get_value's loop for i = lo, ..., hi - 1, in this order.  The
\* turns are run half by half (the first half, then, unless it returned, the
\* second), which is the same sequence of turns and keeps the evaluation
\* shallow on a full array.
RECURSIVE get_value_loop(_, _, _, _, _)
get_value_loop(arr, k, dbus_type, lo, hi) ==
    IF hi <= lo THEN GoOn
    ELSE IF hi = lo + 1 THEN get_value_at(arr, k, dbus_type, lo)
    ELSE LET mid == (lo + hi) \div 2
             r == get_value_loop(arr, k, dbus_type, lo, mid)
         IN IF r.returned THEN r ELSE get_value_loop(arr, k, dbus_type, mid, hi)

\* Result: the status returned and the bytes written through outValue (<<>>
\* when nothing is written).
get_value(arr, k, dbus_type) ==
    LET r == get_value_loop(arr, k, dbus_type, 0, arr.curIndex)
    IN IF r.returned
       THEN [ret |-> r.ret, outValue |-> r.outValue]
       ELSE [ret |-> VALUE_NOT_FOUND, outValue |-> <<>>]

----------------------------------------------------------------------------
(* Input domains *)

\* "xesam:artist", "xesam:title", "xesam:album", "mpris:length"
XesamArtist == <<120, 101, 115, 97, 109, 58, 97, 114, 116, 105, 115, 116>>
XesamTitle == <<120, 101, 115, 97, 109, 58, 116, 105, 116, 108, 101>>
XesamAlbum == <<120, 101, 115, 97, 109, 58, 97, 108, 98, 117, 109>>

\* "Radiohead", "Karma Police"
Radiohead == <<82, 97, 100, 105, 111, 104, 101, 97, 100>>
KarmaPolice == <<75, 97, 114, 109, 97, 32, 80, 111, 108, 105, 99, 101>>

\* A primitive as dbus_message_iter_get_basic delivers it: its type code and
\* its bytes in memory (the characters of a string, without the terminator).
Basic(t, b) == [type |-> t, bytes |-> b, elems |-> <<>>]

Primitives ==
    { Basic(DBUS_TYPE_STRING, Radiohead), Basic(DBUS_TYPE_STRING, KarmaPolice),
      Basic(DBUS_TYPE_INT32, <<7, 0, 0, 0>>), Basic(DBUS_TYPE_INT32, <<255, 255, 255, 255>>),
      Basic(DBUS_TYPE_UINT64, <<64, 73, 15, 0, 0, 0, 0, 0>>),
      Basic(DBUS_TYPE_UINT64, <<0, 0, 0, 0, 1, 0, 0, 0>>),
      Basic(DBUS_TYPE_DOUBLE, <<0, 0, 0, 0, 0, 0, 224, 63>>),
      Basic(DBUS_TYPE_DOUBLE, <<0, 0, 0, 0, 0, 0, 240, 63>>) }

\* the size process_variant passes to insert_metadata for a primitive
outputSize(varType, bytes) ==
    CASE varType = DBUS_TYPE_STRING -> strlen(bytes)
      [] varType = DBUS_TYPE_INT32 -> 4
      [] varType = DBUS_TYPE_UINT64 -> 8
      [] varType = DBUS_TYPE_DOUBLE -> 8
      [] OTHER -> 0

StoreKeys == {XesamArtist, XesamTitle}
QueryKeys == StoreKeys \cup {XesamAlbum}
QueryTypes == {DBUS_TYPE_STRING, DBUS_TYPE_INT32, DBUS_TYPE_UINT64,
               DBUS_TYPE_DOUBLE, DBUS_TYPE_INT64}

NoVariant == [type |-> DBUS_TYPE_INVALID, bytes |-> <<>>, elems |-> <<>>]
NoOps == [init |-> 0, send |-> 0, insert |-> 0, get |-> 0, print |-> 0, free |-> 0]
NoCall == [op |-> "none", key |-> <<>>, dbus_type |-> DBUS_TYPE_INVALID,
           value |-> <<>>, ret |-> VALUE_NOT_FOUND, outValue |-> <<>>]

----------------------------------------------------------------------------
(* The recursive decoder *)

Array(elems) == [type |-> DBUS_TYPE_ARRAY, bytes |-> <<>>, elems |-> elems]

BasicTypes == {DBUS_TYPE_STRING, DBUS_TYPE_INT32, DBUS_TYPE_UINT64, DBUS_TYPE_DOUBLE}

\* What process_variant works on: the store and the two output streams, and
\* the number of insert_metadata calls made so far.
World(meta, out, err) == [meta |-> meta, out |-> out, err |-> err, calls |-> 0]

\* process_variant(variant, key, meta).  `output` is <<>> for NULL and <<b>>
\* for a pointer to the bytes b.
RECURSIVE process_variant(_, _, _), process_elements(_, _, _, _, _)
\* process_variant whose array case does not go into an element that is an
\* array itself
process_variant_no_nesting(v, k, w) ==
    LET varType == v.type
        output == IF varType \in BasicTypes THEN <<v.bytes>> ELSE <<>>
        flat == [i \in 1..Len(v.elems) |->
                   IF v.elems[i].type = DBUS_TYPE_ARRAY
                   THEN [v.elems[i] EXCEPT !.elems = <<>>]
                   ELSE v.elems[i]]
        w1 == CASE varType \in BasicTypes -> w
                [] varType = DBUS_TYPE_ARRAY ->
                     process_elements(flat, k, w, 1, Len(flat) + 1)
                [] OTHER ->
                     [w EXCEPT !.out = Append(@,
                         Printf("\tUnhandled variant type: %d\n", <<<<varType>>>>))]
    IN IF output # <<>>
       THEN LET r == insert_metadata(w1.meta, k, varType, output[1],
                                     outputSize(varType, output[1]))
            IN [w1 EXCEPT !.meta = r.arr, !.err = @ \o r.err, !.calls = @ + 1]
       ELSE w1

\* the decoder leaving an empty string for an array without elements
process_variant_marks_empty_array(v, k, w) ==
    LET varType == v.type
        output == IF varType \in BasicTypes THEN <<v.bytes>> ELSE <<>>
        w1 == CASE varType \in BasicTypes -> w
                [] varType = DBUS_TYPE_ARRAY ->
                     IF v.elems = <<>>
                     THEN LET r == insert_metadata(w.meta, k, DBUS_TYPE_STRING, <<0>>, 0)
                          IN [w EXCEPT !.meta = r.arr, !.err = @ \o r.err, !.calls = @ + 1]
                     ELSE process_elements(v.elems, k, w, 1, Len(v.elems) + 1)
                [] OTHER ->
                     [w EXCEPT !.out = Append(@,
                         Printf("\tUnhandled variant type: %d\n", <<<<varType>>>>))]
    IN IF output # <<>>
       THEN LET r == insert_metadata(w1.meta, k, varType, output[1],
                                     outputSize(varType, output[1]))
            IN [w1 EXCEPT !.meta = r.arr, !.err = @ \o r.err, !.calls = @ + 1]
       ELSE w1

\* the decoder keeping a value of an unrecognized kind as an entry
process_variant_keeps_unrecognized(v, k, w) ==
    LET varType == v.type
        output == IF varType # DBUS_TYPE_ARRAY THEN <<v.bytes>> ELSE <<>>
        w1 == CASE varType \in BasicTypes -> w
                [] varType = DBUS_TYPE_ARRAY ->
                     process_elements(v.elems, k, w, 1, Len(v.elems) + 1)
                [] OTHER ->
                     [w EXCEPT !.out = Append(@,
                         Printf("\tUnhandled variant type: %d\n", <<<<varType>>>>))]
    IN IF output # <<>>
       THEN LET r == insert_metadata(w1.meta, k, varType, output[1], Len(output[1]))
            IN [w1 EXCEPT !.meta = r.arr, !.err = @ \o r.err, !.calls = @ + 1]
       ELSE w1

process_variant(v, k, w) ==
    LET varType == v.type
        output == IF varType \in BasicTypes THEN <<v.bytes>> ELSE <<>>
        w1 == CASE varType \in BasicTypes -> w
                [] varType = DBUS_TYPE_ARRAY ->
                     process_elements(v.elems, k, w, 1, Len(v.elems) + 1)
                [] OTHER ->
                     [w EXCEPT !.out = Append(@,
                         Printf("\tUnhandled variant type: %d\n", <<<<varType>>>>))]
    IN IF output # <<>>
       THEN LET r == insert_metadata(w1.meta, k, varType, output[1],
                                     outputSize(varType, output[1]))
            IN [w1 EXCEPT !.meta = r.arr, !.err = @ \o r.err, !.calls = @ + 1]
       ELSE w1

\* the loop walking the array from its last element to its first
process_elements_backwards(elems, k, w, lo, hi) ==
    IF hi <= lo THEN w
    ELSE IF hi = lo + 1 THEN process_variant(elems[lo], k, w)
    ELSE LET mid == (lo + hi) \div 2
             last == process_elements(elems, k, w, mid, hi)
         IN IF last.calls >= 0 THEN process_elements(elems, k, last, lo, mid) ELSE last

\* The turns of the while loop of the array case for the elements lo, ...,
\* hi - 1 of the array, in this order (run half by half, as in get_value_loop;
\* the first half is computed before the second starts).
process_elements(elems, k, w, lo, hi) ==
    IF hi <= lo THEN w
    ELSE IF hi = lo + 1 THEN process_variant(elems[lo], k, w)
    ELSE LET mid == (lo + hi) \div 2
             first == process_elements(elems, k, w, lo, mid)
         IN IF first.calls >= 0 THEN process_elements(elems, k, first, mid, hi) ELSE first

----------------------------------------------------------------------------
(* Tagged values for the decoder *)

\* values of kinds process_variant has no case for: a 64-bit signed integer,
\* a variant holding a string
Unrecognized ==
    { Basic(DBUS_TYPE_INT64, <<64, 73, 15, 0, 0, 0, 0, 0>>),
      [type |-> DBUS_TYPE_VARIANT, bytes |-> <<>>,
       elems |-> <<Basic(DBUS_TYPE_STRING, Radiohead)>>] }

DecodeLeaves ==
    { Basic(DBUS_TYPE_STRING, Radiohead), Basic(DBUS_TYPE_STRING, KarmaPolice),
      Basic(DBUS_TYPE_INT32, <<7, 0, 0, 0>>),
      Basic(DBUS_TYPE_UINT64, <<64, 73, 15, 0, 0, 0, 0, 0>>),
      Basic(DBUS_TYPE_DOUBLE, <<0, 0, 0, 0, 0, 0, 224, 63>>) } \cup Unrecognized

\* the values on which the decoder visits exactly n values, and the element
\* lists on which it visits exactly n
RECURSIVE ValuesOfSize(_), ListsOfSize(_)
ValuesOfSize(n) ==
    IF n = 1 THEN DecodeLeaves \cup {Array(<<>>)}
             ELSE {Array(l) : l \in ListsOfSize(n - 1)}

ListsOfSize(n) ==
    IF n = 0 THEN {<<>>}
    ELSE UNION { { <<v>> \o l : v \in ValuesOfSize(m), l \in ListsOfSize(n - m) } :
                 m \in 1..n }

TaggedValues == UNION {ValuesOfSize(n) : n \in 1..MaxNodes}

\* the array after n inserts of the same artist (n <= MAXSIZE)
Filled(n) ==
    LET one == insert_metadata(init_metadata_array, XesamArtist, DBUS_TYPE_STRING,
                               Radiohead, outputSize(DBUS_TYPE_STRING, Radiohead)).arr
    IN [meta |-> [i \in 1..n |-> one.meta[1]], curIndex |-> n]

\* the stores a dictionary entry's value is decoded into: empty, one entry,
\* two free slots left
PriorStores == {Filled(0), Filled(1), Filled(MAXSIZE - 2)}

----------------------------------------------------------------------------
(* The decoder applied to one tagged value *)

DecodeInit ==
    /\ pc = "decode"
    /\ argv = <<>>
    /\ metadata \in PriorStores
    /\ stdout = <<>>
    /\ stderr = <<>>
    /\ key = <<>>
    /\ variant = NoVariant
    /\ reply = <<>>
    /\ artist = <<>>
    /\ title = <<>>
    /\ ret1 = VALUE_NOT_FOUND
    /\ ret2 = VALUE_NOT_FOUND
    /\ retval = 0
    /\ exitCode = 0
    /\ ops = NoOps
    /\ call = NoCall

ProcessVariant ==
    /\ pc = "decode"
    /\ \E k \in StoreKeys, v \in TaggedValues :
         LET w == process_variant(v, k, World(metadata, stdout, stderr))
         IN /\ key' = k
            /\ variant' = v
            /\ metadata' = w.meta
            /\ stdout' = w.out
            /\ stderr' = w.err
    /\ pc' = "decoded"
    /\ UNCHANGED <<argv, reply, artist, title, ret1, ret2, retval, exitCode, ops, call>>

DecodeNext == ProcessVariant

DecodeSpec == DecodeInit /\ [][DecodeNext]_vars

----------------------------------------------------------------------------
(* The store API under an arbitrary client *)

\* the entries an insert of a primitive p under key k is called with
ItemArgs(k, p) == [key |-> k, type |-> p.type, bytes |-> p.bytes]

\* The entries a client repeats to fill the array: a long list of artists,
\* a long list of floating-point numbers.
RunItems ==
    { ItemArgs(XesamArtist, Basic(DBUS_TYPE_STRING, Radiohead)),
      ItemArgs(XesamTitle, Basic(DBUS_TYPE_DOUBLE, <<0, 0, 0, 0, 0, 0, 224, 63>>)) }

\* the array holds only copies of the entry that inserting `it` makes
RunOf(arr, it) ==
    \A i \in 1..arr.curIndex :
        arr.meta[i] = MetadataItem(it.key, it.type, it.bytes)

\* What the client may insert next: anything while the array holds fewer than
\* MaxVaried entries or is full; in between, only one more copy of the entry
\* a run is made of (this is how the array gets full).
ClientItems(arr) ==
    IF arr.curIndex < MaxVaried \/ arr.curIndex >= MAXSIZE
    THEN { ItemArgs(k, p) : k \in StoreKeys, p \in Primitives }
    ELSE { it \in RunItems : RunOf(arr, it) }

StoreInit ==
    /\ pc = "client"
    /\ argv = <<>>
    /\ metadata = init_metadata_array
    /\ stdout = <<>>
    /\ stderr = <<>>
    /\ key = <<>>
    /\ variant = NoVariant
    /\ reply = <<>>
    /\ artist = <<>>
    /\ title = <<>>
    /\ ret1 = VALUE_NOT_FOUND
    /\ ret2 = VALUE_NOT_FOUND
    /\ retval = 0
    /\ exitCode = 0
    /\ ops = NoOps
    /\ call = NoCall

InsertMetadata ==
    /\ pc = "client"
    /\ Len(stderr) < MaxOverflow
    /\ \E it \in ClientItems(metadata) :
         LET r == insert_metadata(metadata, it.key, it.type, it.bytes,
                                  outputSize(it.type, it.bytes))
         IN /\ metadata' = r.arr
            /\ stderr' = stderr \o r.err
            /\ call' = [NoCall EXCEPT !.op = "insert_metadata", !.key = it.key,
                                      !.dbus_type = it.type, !.value = it.bytes]
    /\ UNCHANGED <<pc, argv, stdout, key, variant, reply, artist, title,
                   ret1, ret2, retval, exitCode, ops>>

GetValue ==
    /\ pc = "client"
    /\ \E k \in QueryKeys, t \in QueryTypes :
         LET r == get_value(metadata, k, t)
         IN call' = [NoCall EXCEPT !.op = "get_value", !.key = k, !.dbus_type = t,
                                   !.ret = r.ret, !.outValue = r.outValue]
    /\ UNCHANGED <<pc, argv, metadata, stdout, stderr, key, variant, reply, artist,
                   title, ret1, ret2, retval, exitCode, ops>>

StoreNext == InsertMetadata \/ GetValue

StoreSpec == StoreInit /\ [][StoreNext]_vars

----------------------------------------------------------------------------
(* The program *)

\* the dump with a case for floating-point values
print_metadata_array_with_double(arr) ==
    [n \in 1..(2 * arr.curIndex) |->
        LET i == (n - 1) \div 2
            tmp == arr.meta[i + 1]
        IN IF n % 2 = 1
           THEN Printf("Metadata item %d:\n\tdbus_type = %d\n\tkey = %s\n\tvalue = ",
                       <<<<i>>, <<tmp.dbus_type>>, tmp.key>>)
           ELSE CASE tmp.dbus_type = DBUS_TYPE_STRING -> Printf("%s\n", <<tmp.value>>)
                  [] tmp.dbus_type = DBUS_TYPE_INT32 ->
                       Printf("%d\n", <<memcpy(tmp.value, 4)>>)
                  [] tmp.dbus_type = DBUS_TYPE_UINT64 ->
                       Printf("%<PRIu64>\n", <<memcpy(tmp.value, 8)>>)
                  [] tmp.dbus_type = DBUS_TYPE_DOUBLE ->
                       Printf("%f\n", <<memcpy(tmp.value, 8)>>)
                  [] OTHER -> Printf("Unsupported type\n", <<>>)]

\* Prints all entries of the array: per entry the printf of its number, type
\* and key, then the printf of its value.  Result: the calls on stdout.
print_metadata_array(arr) ==
    [n \in 1..(2 * arr.curIndex) |->
        LET i == (n - 1) \div 2
            tmp == arr.meta[i + 1]
        IN IF n % 2 = 1
           THEN Printf("Metadata item %d:\n\tdbus_type = %d\n\tkey = %s\n\tvalue = ",
                       <<<<i>>, <<tmp.dbus_type>>, tmp.key>>)
           ELSE CASE tmp.dbus_type = DBUS_TYPE_STRING -> Printf("%s\n", <<tmp.value>>)
                  [] tmp.dbus_type = DBUS_TYPE_INT32 ->
                       Printf("%d\n", <<memcpy(tmp.value, 4)>>)
                  [] tmp.dbus_type = DBUS_TYPE_UINT64 ->
                       Printf("%<PRIu64>\n", <<memcpy(tmp.value, 8)>>)
                  [] OTHER -> Printf("Unsupported type\n", <<>>)]

\* A DBusError: whether it is set, its name, its message ("no such name",
\* "timed out").
NoError == [set |-> FALSE, name |-> "", message |-> <<>>]
ServiceUnknown ==
    [set |-> TRUE, name |-> "org.freedesktop.DBus.Error.ServiceUnknown",
     message |-> <<110, 111, 32, 115, 117, 99, 104, 32, 110, 97, 109, 101>>]
NoReply ==
    [set |-> TRUE, name |-> "org.freedesktop.DBus.Error.NoReply",
     message |-> <<116, 105, 109, 101, 100, 32, 111, 117, 116>>]
DBusErrors == {ServiceUnknown, NoReply}

\* Result: whether the process exits (with status 1) and what is written on
\* stderr.
check_error(error) ==
    IF error.set
    THEN [exit |-> TRUE,
          err |-> IF error.name = "org.freedesktop.DBus.Error.ServiceUnknown"
                  THEN <<Printf("ERROR: is Spotify running?\n", <<>>)>>
                  ELSE <<Printf("ERROR: %s\n", <<error.message>>)>>]
    ELSE [exit |-> FALSE, err |-> <<>>]

print_usage ==
    << Printf("usage: spotify-dbus [command]\n\n  COMMANDS:\n", <<>>),
       Printf("    track       print current track artist+title\n", <<>>),
       Printf("    metadata    print out all available metadata\n", <<>>) >>

\* argv[1..]: no command, the two commands, a word that is no command
Commands == {<<>>, <<"track">>, <<"metadata">>, <<"status">>}

Keys == {XesamArtist, XesamTitle}

\* an array of n artists
LongArray(n) == Array([i \in 1..n |-> Basic(DBUS_TYPE_STRING, Radiohead)])

\* The values of the dictionary entries of a reply: basic values, a value of
\* an unrecognized kind, arrays of none, one and two strings, an array that
\* starts with a value of an unrecognized kind, arrays that fill the store
\* but for one slot, and wholly, an array of the two basic kinds that are
\* no string and no 32-bit integer, and an array that holds no basic value.
ReplyValues ==
    { Basic(DBUS_TYPE_STRING, Radiohead), Basic(DBUS_TYPE_STRING, KarmaPolice),
      Basic(DBUS_TYPE_INT32, <<7, 0, 0, 0>>),
      Basic(DBUS_TYPE_INT64, <<64, 73, 15, 0, 0, 0, 0, 0>>),
      Array(<<>>),
      Array(<<Basic(DBUS_TYPE_STRING, Radiohead)>>),
      Array(<<Basic(DBUS_TYPE_STRING, Radiohead), Basic(DBUS_TYPE_STRING, KarmaPolice)>>),
      Array(<<Basic(DBUS_TYPE_INT64, <<64, 73, 15, 0, 0, 0, 0, 0>>),
              Basic(DBUS_TYPE_STRING, Radiohead)>>),
      LongArray(MAXSIZE - 1), LongArray(MAXSIZE),
      Array(<<Basic(DBUS_TYPE_UINT64, <<64, 73, 15, 0, 0, 0, 0, 0>>),
              Basic(DBUS_TYPE_DOUBLE, <<0, 0, 0, 0, 0, 0, 224, 63>>)>>),
      Array(<<Array(<<>>), Basic(DBUS_TYPE_INT64, <<64, 73, 15, 0, 0, 0, 0, 0>>)>>) }

Init ==
    /\ pc = "main"
    /\ argv \in Commands
    /\ metadata = init_metadata_array
    /\ stdout = <<>>
    /\ stderr = <<>>
    /\ key = <<>>
    /\ variant = NoVariant
    /\ reply = <<>>
    /\ artist = <<>>
    /\ title = <<>>
    /\ ret1 = VALUE_NOT_FOUND
    /\ ret2 = VALUE_NOT_FOUND
    /\ retval = 0
    /\ exitCode = 0
    /\ ops = NoOps
    /\ call = NoCall

\* exit(status)
Exit(status) ==
    /\ pc' = "exited"
    /\ exitCode' = status

\* main: dbus_bus_get gave a connection; check_error finds no error
MainConnect ==
    /\ pc = "main"
    /\ ~check_error(NoError).exit
    /\ pc' = "dispatch"
    /\ UNCHANGED <<argv, metadata, stdout, stderr, key, variant, reply, artist,
                   title, ret1, ret2, retval, exitCode, ops, call>>

\* main: dbus_bus_get set the error; check_error reports it and exits
MainConnectFails ==
    /\ pc = "main"
    /\ \E error \in DBusErrors :
         /\ check_error(error).exit
         /\ stderr' = stderr \o check_error(error).err
    /\ Exit(1)
    /\ UNCHANGED <<argv, metadata, stdout, key, variant, reply, artist, title,
                   ret1, ret2, retval, ops, call>>

\* the dispatch treating no argument as an unsupported command
MainDispatchNoArgumentUnsupported ==
    /\ pc = "dispatch"
    /\ IF Len(argv) + 1 > 1 /\ argv[1] = "track"
       THEN pc' = "command_track" /\ stdout' = stdout
       ELSE IF Len(argv) + 1 > 1 /\ argv[1] = "metadata"
       THEN pc' = "command_metadata" /\ stdout' = stdout
       ELSE /\ stdout' = (stdout \o <<Printf("Command not supported.\n", <<>>)>>)
                             \o print_usage
            /\ pc' = "main_return"
    /\ UNCHANGED <<argv, metadata, stderr, key, variant, reply, artist, title,
                   ret1, ret2, retval, exitCode, ops, call>>

\* the dispatch printing only the usage text for an unsupported command
MainDispatchUnsupportedSilent ==
    /\ pc = "dispatch"
    /\ IF Len(argv) + 1 > 1 /\ argv[1] = "track"
       THEN pc' = "command_track" /\ stdout' = stdout
       ELSE IF Len(argv) + 1 > 1 /\ argv[1] = "metadata"
       THEN pc' = "command_metadata" /\ stdout' = stdout
       ELSE /\ stdout' = stdout \o print_usage
            /\ pc' = "main_return"
    /\ UNCHANGED <<argv, metadata, stderr, key, variant, reply, artist, title,
                   ret1, ret2, retval, exitCode, ops, call>>

\* main: the choice of the command
MainDispatch ==
    /\ pc = "dispatch"
    /\ IF Len(argv) + 1 > 1
       THEN IF argv[1] = "track" THEN pc' = "command_track" /\ stdout' = stdout
            ELSE IF argv[1] = "metadata" THEN pc' = "command_metadata" /\ stdout' = stdout
            ELSE /\ stdout' = (stdout \o <<Printf("Command not supported.\n", <<>>)>>)
                                  \o print_usage
                 /\ pc' = "main_return"
       ELSE /\ stdout' = stdout \o print_usage
            /\ pc' = "main_return"
    /\ UNCHANGED <<argv, metadata, stderr, key, variant, reply, artist, title,
                   ret1, ret2, retval, exitCode, ops, call>>

\* command_track and command_metadata, up to the call of get_dbus_metadata
CommandInit ==
    /\ pc \in {"command_track", "command_metadata"}
    /\ retval' = 0
    /\ artist' = <<>>
    /\ title' = <<>>
    /\ metadata' = init_metadata_array
    /\ ops' = [ops EXCEPT !.init = @ + 1]
    /\ pc' = "send"
    /\ UNCHANGED <<argv, stdout, stderr, key, variant, reply, ret1, ret2,
                   exitCode, call>>

\* the failed call releasing the store before the exit
SendFailsAfterRelease ==
    /\ pc = "send"
    /\ \E error \in DBusErrors :
         /\ check_error(error).exit
         /\ stderr' = stderr \o check_error(error).err
    /\ Exit(1)
    /\ ops' = [ops EXCEPT !.send = @ + 1, !.free = @ + 1]
    /\ UNCHANGED <<argv, metadata, stdout, key, variant, reply, artist, title,
                   ret1, ret2, retval, call>>

\* get_dbus_metadata: the call fails; check_error reports the error and exits
SendFails ==
    /\ pc = "send"
    /\ \E error \in DBusErrors :
         /\ check_error(error).exit
         /\ stderr' = stderr \o check_error(error).err
    /\ Exit(1)
    /\ ops' = [ops EXCEPT !.send = @ + 1]
    /\ UNCHANGED <<argv, metadata, stdout, key, variant, reply, artist, title,
                   ret1, ret2, retval, call>>

\* where get_dbus_metadata returns to
AfterFetch == IF argv[1] = "track" THEN "track_get_artist" ELSE "metadata_print"

\* get_dbus_metadata: the reply has no arguments
ReplyWithoutArguments ==
    /\ pc = "send"
    /\ ~check_error(NoError).exit
    /\ stdout' = Append(stdout, Printf("Reply does not have arguments!\n", <<>>))
    /\ pc' = AfterFetch
    /\ ops' = [ops EXCEPT !.send = @ + 1]
    /\ UNCHANGED <<argv, metadata, stderr, key, variant, reply, artist, title,
                   ret1, ret2, retval, exitCode, call>>

\* get_dbus_metadata: the reply has arguments; the iterators enter the
\* dictionary
ReplyWithArguments ==
    /\ pc = "send"
    /\ ~check_error(NoError).exit
    /\ pc' = "read"
    /\ ops' = [ops EXCEPT !.send = @ + 1]
    /\ UNCHANGED <<argv, metadata, stdout, stderr, key, variant, reply, artist,
                   title, ret1, ret2, retval, exitCode, call>>

\* get_dbus_metadata: one turn of the loop over the dictionary entries
ReadEntry ==
    /\ pc = "read"
    /\ Len(reply) < MaxEntries
    /\ \E k \in Keys, v \in ReplyValues :
         LET w == process_variant(v, k, World(metadata, stdout, stderr))
         IN /\ key' = k
            /\ variant' = v
            /\ metadata' = w.meta
            /\ stdout' = w.out
            /\ stderr' = w.err
            /\ ops' = [ops EXCEPT !.insert = @ + w.calls]
            /\ reply' = Append(reply, [key |-> k, value |-> v])
    /\ UNCHANGED <<pc, argv, artist, title, ret1, ret2, retval, exitCode, call>>

\* get_dbus_metadata: no entry is left; the messages are released and the
\* function returns (its locals are gone)
ReadEnd ==
    /\ pc = "read"
    /\ pc' = AfterFetch
    /\ key' = <<>>
    /\ variant' = NoVariant
    /\ UNCHANGED <<argv, metadata, stdout, stderr, reply, artist, title, ret1,
                   ret2, retval, exitCode, ops, call>>

\* command_track: ret1 = get_value(&metadata, "xesam:artist", ...)
TrackGetArtist ==
    /\ pc = "track_get_artist"
    /\ LET r == get_value(metadata, XesamArtist, DBUS_TYPE_STRING)
       IN /\ ret1' = r.ret
          /\ artist' = IF r.ret = VALUE_FOUND THEN <<r.outValue>> ELSE artist
    /\ ops' = [ops EXCEPT !.get = @ + 1]
    /\ pc' = "track_get_title"
    /\ UNCHANGED <<argv, metadata, stdout, stderr, key, variant, reply, title,
                   ret2, retval, exitCode, call>>

\* command_track: ret2 = get_value(&metadata, "xesam:title", ...)
TrackGetTitle ==
    /\ pc = "track_get_title"
    /\ LET r == get_value(metadata, XesamTitle, DBUS_TYPE_STRING)
       IN /\ ret2' = r.ret
          /\ title' = IF r.ret = VALUE_FOUND THEN <<r.outValue>> ELSE title
    /\ ops' = [ops EXCEPT !.get = @ + 1]
    /\ pc' = "track_report"
    /\ UNCHANGED <<argv, metadata, stdout, stderr, key, variant, reply, artist,
                   ret1, retval, exitCode, call>>

\* the track line: printf("%s - %s", artist, title)
TrackLineTitleFirst(a, t) == Printf("%s - %s", <<t, a>>)
TrackLine(a, t) == Printf("%s - %s", <<a, t>>)

\* the report printing what it has of the track before the diagnostic
TrackReportPartial ==
    /\ pc = "track_report"
    /\ IF ret1 # VALUE_FOUND \/ ret2 # VALUE_FOUND
       THEN /\ stderr' = Append(stderr,
                            Printf("Could not read artist/track metadata.\n", <<>>))
            /\ stdout' = IF ret1 = VALUE_FOUND
                         THEN Append(stdout, Printf("%s - ", <<artist[1]>>))
                         ELSE stdout
            /\ retval' = 1
       ELSE /\ stdout' = Append(stdout, TrackLine(artist[1], title[1]))
            /\ stderr' = stderr
            /\ retval' = 0
    /\ pc' = "track_free"
    /\ UNCHANGED <<argv, metadata, key, variant, reply, artist, title, ret1,
                   ret2, exitCode, ops, call>>

\* command_track: the diagnostic or the track line
TrackReport ==
    /\ pc = "track_report"
    /\ IF ret1 # VALUE_FOUND \/ ret2 # VALUE_FOUND
       THEN /\ stderr' = Append(stderr,
                            Printf("Could not read artist/track metadata.\n", <<>>))
            /\ stdout' = stdout
            /\ retval' = 1
       ELSE /\ stdout' = Append(stdout, TrackLine(artist[1], title[1]))
            /\ stderr' = stderr
            /\ retval' = 0
    /\ pc' = "track_free"
    /\ UNCHANGED <<argv, metadata, key, variant, reply, artist, title, ret1,
                   ret2, exitCode, ops, call>>

\* the track command going back to the reply after the release
TrackFreeThenRead ==
    /\ pc = "track_free"
    /\ ops' = [ops EXCEPT !.free = @ + 1]
    /\ pc' = "read"
    /\ UNCHANGED <<argv, metadata, stdout, stderr, key, variant, reply, artist,
                   title, ret1, ret2, retval, exitCode, call>>

\* command_track: free(artist), free(title), free_metadata_array; return
TrackFree ==
    /\ pc = "track_free"
    /\ ops' = [ops EXCEPT !.free = @ + 1]
    /\ pc' = "main_return"
    /\ UNCHANGED <<argv, metadata, stdout, stderr, key, variant, reply, artist,
                   title, ret1, ret2, retval, exitCode, call>>

\* command_metadata: print_metadata_array(metadata)
MetadataPrint ==
    /\ pc = "metadata_print"
    /\ stdout' = stdout \o print_metadata_array(metadata)
    /\ ops' = [ops EXCEPT !.print = @ + 1]
    /\ pc' = "metadata_free"
    /\ UNCHANGED <<argv, metadata, stderr, key, variant, reply, artist, title,
                   ret1, ret2, retval, exitCode, call>>

\* command_metadata: free_metadata_array; return retval
MetadataFree ==
    /\ pc = "metadata_free"
    /\ ops' = [ops EXCEPT !.free = @ + 1]
    /\ pc' = "main_return"
    /\ UNCHANGED <<argv, metadata, stdout, stderr, key, variant, reply, artist,
                   title, ret1, ret2, retval, exitCode, call>>

\* main returning 0 whatever the command returned
MainReturnSuccess ==
    /\ pc = "main_return"
    /\ Exit(0)
    /\ UNCHANGED <<argv, metadata, stdout, stderr, key, variant, reply, artist,
                   title, ret1, ret2, retval, ops, call>>

\* main: the connection is released; return retval
MainReturn ==
    /\ pc = "main_return"
    /\ Exit(retval)
    /\ UNCHANGED <<argv, metadata, stdout, stderr, key, variant, reply, artist,
                   title, ret1, ret2, retval, ops, call>>

Next ==
    \/ MainConnect
    \/ MainConnectFails
    \/ MainDispatch
    \/ CommandInit
    \/ SendFails
    \/ ReplyWithoutArguments
    \/ ReplyWithArguments
    \/ ReadEntry
    \/ ReadEnd
    \/ TrackGetArtist
    \/ TrackGetTitle
    \/ TrackReport
    \/ TrackFree
    \/ MetadataPrint
    \/ MetadataFree
    \/ MainReturn

Spec == Init /\ [][Next]_vars

----------------------------------------------------------------------------
(* Properties of the store *)

SupportedTypes == {DBUS_TYPE_STRING, DBUS_TYPE_INT32, DBUS_TYPE_UINT64}

\* positions (from 1) of the entries stored under key k, of those of kind t
KeyIndexes(arr, k) == {i \in 1..arr.curIndex : arr.meta[i].key = k}
KindIndexes(arr, k, t) == {i \in KeyIndexes(arr, k) : arr.meta[i].dbus_type = t}
First(S) == CHOOSE i \in S : \A j \in S : i <= j
FirstOfKey(arr, k) == arr.meta[First(KeyIndexes(arr, k))]

\* the array as it was when it held its first n entries
Prefix(arr, n) == [meta |-> SubSeq(arr.meta, 1, n), curIndex |-> n]

\* C1 as stated: whenever the store holds an entry of key K and supported
\* kind T, get(K, T) returns Found with the value of the first entry of key K
\* and kind T.
C1_FirstOfKeyAndKindFound ==
    (call.op = "get_value" /\ call.dbus_type \in SupportedTypes
        /\ KindIndexes(metadata, call.key, call.dbus_type) # {})
    => /\ call.ret = VALUE_FOUND
       /\ call.outValue =
            metadata.meta[First(KindIndexes(metadata, call.key, call.dbus_type))].value

\* C1 amended: when the first-inserted entry of key K has the supported kind
\* T, get(K, T) returns Found with that entry's value, and it did so before
\* the last entry was appended, unless that is the entry found (so, the
\* stores being built entry by entry, ever since that entry was inserted):
\* entries appended afterwards, of key K or not, never change the result.
C1_FirstOfKeyFound ==
    \A k \in QueryKeys, t \in SupportedTypes :
        (KeyIndexes(metadata, k) # {} /\ FirstOfKey(metadata, k).dbus_type = t)
        => LET found == [ret |-> VALUE_FOUND,
                         outValue |-> FirstOfKey(metadata, k).value]
           IN /\ (call.op = "get_value" /\ call.key = k /\ call.dbus_type = t)
                    => (call.ret = found.ret /\ call.outValue = found.outValue)
              /\ \A n \in {metadata.curIndex - 1, metadata.curIndex} :
                    n >= First(KeyIndexes(metadata, k))
                    => get_value(Prefix(metadata, n), k, t) = found

\* a get that found the first of several entries of its key and kind, a later
\* one holding another value
C1_Witness ==
    /\ call.op = "get_value"
    /\ call.ret = VALUE_FOUND
    /\ \E i \in KindIndexes(metadata, call.key, call.dbus_type) :
          /\ i > First(KeyIndexes(metadata, call.key))
          /\ metadata.meta[i].value # call.outValue

\* C2: when the first-inserted entry of key K has a kind other than the
\* expected one, get returns WrongType and writes nothing, also when a later
\* entry of key K has the expected kind.
C2_EarlierDuplicateWrongType ==
    (call.op = "get_value" /\ KeyIndexes(metadata, call.key) # {}
        /\ FirstOfKey(metadata, call.key).dbus_type # call.dbus_type)
    => (call.ret = WRONG_TYPE /\ call.outValue = <<>>)

\* a get answered WrongType although a later entry of the key has the
\* expected, supported kind
C2_Witness ==
    /\ call.op = "get_value"
    /\ call.ret = WRONG_TYPE
    /\ call.dbus_type \in SupportedTypes
    /\ KindIndexes(metadata, call.key, call.dbus_type) # {}

\* C3 as stated: a get with an expected kind outside {String, Int32, UInt64}
\* returns NotFound whatever the store holds.
C3_UnsupportedAlwaysNotFound ==
    (call.op = "get_value" /\ call.dbus_type \notin SupportedTypes)
    => call.ret = VALUE_NOT_FOUND

\* C3 amended: a get with an expected kind outside {String, Int32, UInt64}
\* never returns Found; it returns NotFound when the key is absent or the
\* first entry of the key has that same kind, and WrongType when the first
\* entry of the key has another kind.
C3_UnsupportedNeverFound ==
    (call.op = "get_value" /\ call.dbus_type \notin SupportedTypes)
    => /\ call.outValue = <<>>
       /\ call.ret =
            IF KeyIndexes(metadata, call.key) = {}
                 \/ FirstOfKey(metadata, call.key).dbus_type = call.dbus_type
            THEN VALUE_NOT_FOUND
            ELSE WRONG_TYPE

\* a get of a floating-point value whose key's first entry is floating-point
C3_Witness ==
    /\ call.op = "get_value"
    /\ call.dbus_type = DBUS_TYPE_DOUBLE
    /\ KeyIndexes(metadata, call.key) # {}
    /\ FirstOfKey(metadata, call.key).dbus_type = DBUS_TYPE_DOUBLE
    /\ call.ret = VALUE_NOT_FOUND

\* C4: a get of a key no entry of the store has (so of any key that was
\* never inserted: entries come from inserts only) returns NotFound and
\* writes nothing, whatever the expected kind and the size of the store.
C4_AbsentKeyNotFound ==
    (call.op = "get_value" /\ KeyIndexes(metadata, call.key) = {})
    => (call.ret = VALUE_NOT_FOUND /\ call.outValue = <<>>)

\* a get of an absent key on a full store
C4_Witness ==
    /\ call.op = "get_value"
    /\ metadata.curIndex = MAXSIZE
    /\ KeyIndexes(metadata, call.key) = {}
    /\ call.ret = VALUE_NOT_FOUND

\* C5: the size of the store stays within 0..MAXSIZE (and every slot below
\* it is written); an insert on a store of MAXSIZE entries leaves the store
\* as it is, writes the diagnostic on stderr and nothing else, and returns
\* to its caller.
C5_CapacityInvariant ==
    /\ [](metadata.curIndex \in 0..MAXSIZE /\ Len(metadata.meta) = metadata.curIndex)
    /\ [][(metadata.curIndex = MAXSIZE /\ call'.op = "insert_metadata")
            => /\ metadata' = metadata
               /\ stderr' = Append(stderr, Printf("ERROR: metadata array is full\n", <<>>))
               /\ stdout' = stdout
               /\ pc' = pc
               /\ exitCode' = exitCode]_vars

\* an insert was made on a full store
C5_Witness ==
    /\ call.op = "insert_metadata"
    /\ metadata.curIndex = MAXSIZE
    /\ stderr # <<>>

----------------------------------------------------------------------------
(* Properties of the decoder *)

\* the basic values of a tagged value, depth first and left to right (those
\* of the elements lo, ..., hi - 1 of a list, half by half)
RECURSIVE LeafPrimitives(_), LeafPrimitivesOfList(_, _, _)
LeafPrimitives(v) ==
    IF v.type \in BasicTypes THEN <<v>>
    ELSE IF v.type = DBUS_TYPE_ARRAY
         THEN LeafPrimitivesOfList(v.elems, 1, Len(v.elems) + 1)
    ELSE <<>>

LeafPrimitivesOfList(l, lo, hi) ==
    IF hi <= lo THEN <<>>
    ELSE IF hi = lo + 1 THEN LeafPrimitives(l[lo])
    ELSE LET mid == (lo + hi) \div 2
         IN LeafPrimitivesOfList(l, lo, mid) \o LeafPrimitivesOfList(l, mid, hi)

\* the entries that a list of basic values makes under key k
EntriesOf(k, leaves) ==
    [i \in 1..Len(leaves) |-> MetadataItem(k, leaves[i].type, leaves[i].bytes)]

IsArrayOfPrimitives(v) ==
    /\ v.type = DBUS_TYPE_ARRAY
    /\ \A i \in 1..Len(v.elems) : v.elems[i].type \in BasicTypes

\* C6: decoding under key K an array of N basic values, the store having at
\* least N free slots, leaves the entries already there as they are and
\* appends N entries: the i-th has key K and the kind and the bytes of the
\* i-th element.
C6_ArrayOfPrimitivesInOrder ==
    [][(pc' = "decoded" /\ IsArrayOfPrimitives(variant')
          /\ metadata.curIndex + Len(variant'.elems) <= MAXSIZE)
       => /\ metadata'.curIndex = metadata.curIndex + Len(variant'.elems)
          /\ Len(metadata'.meta) = metadata'.curIndex
          /\ \A i \in 1..metadata.curIndex : metadata'.meta[i] = metadata.meta[i]
          /\ \A i \in 1..Len(variant'.elems) :
                metadata'.meta[metadata.curIndex + i] =
                    MetadataItem(key', variant'.elems[i].type, variant'.elems[i].bytes)
      ]_vars

\* an array of several basic values of different kinds was decoded into a
\* store that held an entry
C6_Witness ==
    /\ pc = "decoded"
    /\ IsArrayOfPrimitives(variant)
    /\ Len(variant.elems) >= 2
    /\ variant.elems[1].type # variant.elems[2].type
    /\ metadata.curIndex = 1 + Len(variant.elems)
    /\ metadata.meta[2].value = variant.elems[1].bytes

\* C7: decoding under key K an array, whatever is nested in it, the store
\* having a free slot for each basic value in it, appends exactly the entries
\* of its basic values, depth first and left to right, all under key K; the
\* arrays themselves (and the values of unrecognized kinds) leave no entry.
C7_NestedArraysFlattened ==
    [][(pc' = "decoded" /\ variant'.type = DBUS_TYPE_ARRAY
          /\ metadata.curIndex + Len(LeafPrimitives(variant')) <= MAXSIZE)
       => /\ metadata'.meta = metadata.meta \o EntriesOf(key', LeafPrimitives(variant'))
          /\ metadata'.curIndex = Len(metadata'.meta)
      ]_vars

\* an array was decoded that holds a non-empty array followed by a basic value
C7_Witness ==
    /\ pc = "decoded"
    /\ variant.type = DBUS_TYPE_ARRAY
    /\ \E i, j \in 1..Len(variant.elems) :
          /\ i < j
          /\ variant.elems[i].type = DBUS_TYPE_ARRAY
          /\ LeafPrimitives(variant.elems[i]) # <<>>
          /\ variant.elems[j].type \in BasicTypes
    /\ metadata.curIndex = 1 + Len(LeafPrimitives(variant))

----------------------------------------------------------------------------
(* Properties of the program *)

HandledTypes == BasicTypes \cup {DBUS_TYPE_ARRAY}

\* the first n elements of a sequence, all of them if it has fewer
Take(s, n) == SubSeq(s, 1, IF Len(s) < n THEN Len(s) ELSE n)

\* the fmt of the printf that reports a value of an unrecognized kind
UnhandledFmt == "\tUnhandled variant type: %d\n"

\* the entries that the basic values of a tagged value make under key k,
\* depth first and left to right (those of the elements lo, ..., hi - 1 of a
\* list, half by half)
RECURSIVE LeafEntriesOf(_, _), LeafEntriesOfList(_, _, _, _)
LeafEntriesOf(k, v) ==
    IF v.type \in BasicTypes THEN <<MetadataItem(k, v.type, v.bytes)>>
    ELSE IF v.type = DBUS_TYPE_ARRAY
         THEN LeafEntriesOfList(k, v.elems, 1, Len(v.elems) + 1)
    ELSE <<>>

LeafEntriesOfList(k, l, lo, hi) ==
    IF hi <= lo THEN <<>>
    ELSE IF hi = lo + 1 THEN LeafEntriesOf(k, l[lo])
    ELSE LET mid == (lo + hi) \div 2
         IN LeafEntriesOfList(k, l, lo, mid) \o LeafEntriesOfList(k, l, mid, hi)

\* C8: reading a dictionary entry whose value (or a value nested in its
\* arrays) is of an unrecognized kind appends no entry for that value and
\* stops nothing: the store gets the entries of the basic values of the
\* entry, those that follow the unrecognized value included, as far as there
\* are free slots; the loop over the dictionary goes on, and an entry read
\* after one of an unrecognized kind is decoded into the store as any other.
C8_UnrecognizedSkippedSiblingsKept ==
    [][(pc = "read" /\ reply' # reply)
       => /\ metadata'.meta = Take(metadata.meta \o LeafEntriesOf(key', variant'), MAXSIZE)
          /\ metadata'.curIndex = Len(metadata'.meta)
          /\ (variant'.type \notin HandledTypes)
                => /\ metadata' = metadata
                   /\ stderr' = stderr
                   /\ stdout' = Append(stdout, Printf(UnhandledFmt, <<<<variant'.type>>>>))
          /\ pc' = "read"
          /\ exitCode' = exitCode
      ]_vars

\* the first dictionary entry was of an unrecognized kind and left nothing;
\* the second is an array whose first element is of an unrecognized kind and
\* whose second element is stored
C8_Witness ==
    /\ pc = "read"
    /\ Len(reply) = 2
    /\ reply[1].value.type \notin HandledTypes
    /\ reply[2].value.type = DBUS_TYPE_ARRAY
    /\ Len(reply[2].value.elems) = 2
    /\ reply[2].value.elems[1].type \notin HandledTypes
    /\ reply[2].value.elems[2].type = DBUS_TYPE_STRING
    /\ metadata.meta = <<MetadataItem(reply[2].key, DBUS_TYPE_STRING,
                                      reply[2].value.elems[2].bytes)>>
    /\ Len(stdout) = 2

\* the basic values of the i-th dictionary entry of the reply, in the order
\* the decoder meets them
EntryLeaves(i) == LeafPrimitives(reply[i].value)

\* the entries of key k that hold a basic value
LeafEntries(k) ==
    {i \in 1..Len(reply) : reply[i].key = k /\ EntryLeaves(i) # <<>>}

\* the first basic value decoded under key k
FirstLeaf(k) == EntryLeaves(First(LeafEntries(k)))[1]
HasStringFirst(k) == LeafEntries(k) # {} /\ FirstLeaf(k).type = DBUS_TYPE_STRING

\* how many basic values the reply holds before its i-th entry, and the
\* place of the first basic value of key k among all those of the reply
RECURSIVE LeavesBefore(_)
LeavesBefore(i) ==
    IF i <= 1 THEN 0 ELSE LeavesBefore(i - 1) + Len(EntryLeaves(i - 1))
FirstLeafPosition(k) == LeavesBefore(First(LeafEntries(k))) + 1

\* the track command has looked up artist and title and has made its report
TrackReported ==
    /\ argv = <<"track">>
    /\ pc \in {"track_free", "main_return", "exited"}
    /\ ops.get = 2

\* C9 as stated: when the first basic value decoded under "xesam:artist" is
\* a string A and the first decoded under "xesam:title" a string T, the track
\* command prints exactly "A - T" and exits 0.
C9_TrackPrintsExactlyFirstLeaves ==
    (TrackReported /\ HasStringFirst(XesamArtist) /\ HasStringFirst(XesamTitle))
    => /\ stdout = <<Printf("%s - %s", <<strdup(FirstLeaf(XesamArtist).bytes),
                                         strdup(FirstLeaf(XesamTitle).bytes)>>)>>
       /\ retval = 0
       /\ pc = "exited" => exitCode = 0

\* C9 amended: when moreover both are among the first MAXSIZE basic values
\* of the reply, the last thing the track command prints on stdout is
\* "A - T", all it printed before are the reports of the values of
\* unrecognized kinds in the reply (none if there is no such value), and it
\* exits 0.
C9_TrackPrintsStoredFirstLeaves ==
    (TrackReported /\ HasStringFirst(XesamArtist) /\ HasStringFirst(XesamTitle)
        /\ FirstLeafPosition(XesamArtist) <= MAXSIZE
        /\ FirstLeafPosition(XesamTitle) <= MAXSIZE)
    => /\ stdout # <<>>
       /\ stdout[Len(stdout)] =
            Printf("%s - %s", <<strdup(FirstLeaf(XesamArtist).bytes),
                                strdup(FirstLeaf(XesamTitle).bytes)>>)
       /\ \A i \in 1..(Len(stdout) - 1) : stdout[i].fmt = UnhandledFmt
       /\ (\A i \in 1..Len(reply) :
              /\ reply[i].value.type \in HandledTypes
              /\ \A j \in 1..Len(reply[i].value.elems) :
                    reply[i].value.elems[j].type \in BasicTypes)
          => Len(stdout) = 1
       /\ retval = 0
       /\ pc = "exited" => exitCode = 0

\* the track command has exited on a reply whose artist is an array of two
\* different strings, followed by the title
C9_Witness ==
    /\ TrackReported
    /\ pc = "exited"
    /\ exitCode = 0
    /\ Len(reply) = 2
    /\ reply[1].key = XesamArtist
    /\ reply[1].value.type = DBUS_TYPE_ARRAY
    /\ Len(reply[1].value.elems) = 2
    /\ reply[1].value.elems[1].bytes # reply[1].value.elems[2].bytes
    /\ reply[2].key = XesamTitle
    /\ reply[2].value.type = DBUS_TYPE_STRING
    /\ stdout = <<Printf("%s - %s", <<reply[1].value.elems[1].bytes,
                                      reply[2].value.bytes>>)>>

\* the diagnostic of the track command
CouldNotRead == Printf("Could not read artist/track metadata.\n", <<>>)

\* C10: when the lookup of "xesam:artist" or of "xesam:title" as a string
\* does not return Found (and it does not exactly when the store has no
\* entry of the key or the first one is not a string), the track command
\* writes its diagnostic (the last thing on stderr), prints no track line,
\* whole or partial (all that stdout holds are the reports the decoding
\* made), and returns 1 from main, which is its exit code.
C10_TrackFailureDiagnostic ==
    TrackReported =>
       /\ (ret1 = VALUE_FOUND) <=>
             /\ KeyIndexes(metadata, XesamArtist) # {}
             /\ FirstOfKey(metadata, XesamArtist).dbus_type = DBUS_TYPE_STRING
       /\ (ret2 = VALUE_FOUND) <=>
             /\ KeyIndexes(metadata, XesamTitle) # {}
             /\ FirstOfKey(metadata, XesamTitle).dbus_type = DBUS_TYPE_STRING
       /\ (ret1 # VALUE_FOUND \/ ret2 # VALUE_FOUND)
          => /\ stderr # <<>>
             /\ stderr[Len(stderr)] = CouldNotRead
             /\ \A i \in 1..Len(stdout) :
                   stdout[i].fmt \in {UnhandledFmt, "Reply does not have arguments!\n"}
             /\ retval = 1
             /\ pc = "exited" => exitCode = 1

\* the track command has exited with 1 on a reply with an artist but a
\* title that is no string
C10_Witness ==
    /\ TrackReported
    /\ pc = "exited"
    /\ exitCode = 1
    /\ ret1 = VALUE_FOUND
    /\ ret2 = WRONG_TYPE
    /\ artist # <<>>
    /\ stdout = <<>>
    /\ stderr = <<CouldNotRead>>

\* C11: when the connection to the bus fails, or the remote call returns an
\* error (the player is not on the bus), the program writes the diagnostic
\* of the error on stderr ("is Spotify running?" for an unknown service, the
\* message of the error otherwise) and exits with 1 in that same step, with
\* nothing printed on stdout, no entry in the store, and no insert, get,
\* dump or release made in the run.
C11_BusOrPeerErrorExitsAtOnce ==
    [][(pc \in {"main", "send"} /\ pc' = "exited")
       => /\ stderr' \in
                { <<Printf("ERROR: is Spotify running?\n", <<>>)>>,
                  <<Printf("ERROR: %s\n", <<NoReply.message>>)>> }
          /\ exitCode' = 1
          /\ stdout' = <<>>
          /\ metadata' = init_metadata_array
          /\ ops'.insert = 0 /\ ops'.get = 0 /\ ops'.print = 0 /\ ops'.free = 0
      ]_vars

\* the track command has exited on a remote call that found no player
C11_Witness ==
    /\ pc = "exited"
    /\ argv = <<"track">>
    /\ ops.init = 1
    /\ ops.send = 1
    /\ exitCode = 1
    /\ stderr = <<Printf("ERROR: is Spotify running?\n", <<>>)>>
    /\ stdout = <<>>

\* C12: in a run that creates a store (init_metadata_array was called), the
\* store is released exactly once before the process terminates, on the path
\* where the remote call fails too, and the release comes after the last
\* insert, get and dump (nothing but the return from main follows it).
C12_ReleaseExactlyOnce ==
    /\ ops.free <= 1
    /\ ops.free = 1 => pc \in {"main_return", "exited"}
    /\ (pc = "exited" /\ ops.init = 1) => ops.free = 1

\* the run ended in check_error: the last thing on stderr is its diagnostic
ErrorReported ==
    /\ stderr # <<>>
    /\ stderr[Len(stderr)].fmt \in {"ERROR: is Spotify running?\n", "ERROR: %s\n"}

\* the reply carried no arguments
NoArgumentsReported ==
    \E i \in 1..Len(stdout) : stdout[i].fmt = "Reply does not have arguments!\n"

\* the track command looked up artist and title and one lookup did not
\* return Found
TrackLookupFailed ==
    /\ argv = <<"track">>
    /\ ops.get = 2
    /\ (ret1 # VALUE_FOUND \/ ret2 # VALUE_FOUND)

\* C13 as stated: the exit code is 1 when the bus or the remote call failed,
\* when the reply carried no arguments (track and metadata command alike),
\* and when the track command did not find artist or title as strings; it is
\* 0 otherwise.
C13_ExitCodeOneOnNoArguments ==
    pc = "exited"
    => exitCode = IF ErrorReported \/ NoArgumentsReported \/ TrackLookupFailed
                  THEN 1 ELSE 0

\* C13 amended: the exit code is 1 when the connection to the bus or the
\* remote call failed (either command, or none), and when the track command
\* did not find artist or title as strings, which is the case when the reply
\* carried no arguments; it is 0 otherwise: the metadata command on a reply
\* without arguments exits with 0.
C13_ExitCodeContract ==
    pc = "exited"
    => /\ exitCode = IF ErrorReported \/ TrackLookupFailed THEN 1 ELSE 0
       /\ (NoArgumentsReported /\ argv = <<"track">>) => exitCode = 1
       /\ (NoArgumentsReported /\ argv = <<"metadata">>) => exitCode = 0

\* the metadata command has exited with 0 on a reply without arguments
C13_Witness ==
    /\ pc = "exited"
    /\ argv = <<"metadata">>
    /\ NoArgumentsReported
    /\ ops.print = 1
    /\ exitCode = 0

\* the three printf calls of the usage text
UsageText ==
    << Printf("usage: spotify-dbus [command]\n\n  COMMANDS:\n", <<>>),
       Printf("    track       print current track artist+title\n", <<>>),
       Printf("    metadata    print out all available metadata\n", <<>>) >>

\* C14 as stated: run without an argument, the program does what the
\* metadata command does: one remote call, then the dump of the store.
C14_NoArgumentDumps ==
    (pc = "exited" /\ argv = <<>> /\ ~ErrorReported)
    => (ops.init = 1 /\ ops.send = 1 /\ ops.print = 1 /\ ops.free = 1)

\* C14 amended: run without an argument (and connected to the bus), the
\* program prints the usage text and nothing else and exits with 0; it makes
\* no remote call and creates, fills, reads and dumps no store.
C14_NoArgumentPrintsUsage ==
    argv = <<>>
    => /\ ops = NoOps
       /\ metadata = init_metadata_array
       /\ reply = <<>>
       /\ stdout \in {<<>>, UsageText}
       /\ (pc \in {"main_return", "exited"} /\ ~ErrorReported)
             => (stdout = UsageText /\ stderr = <<>>)
       /\ (pc = "exited" /\ ~ErrorReported) => exitCode = 0

\* the program run without an argument has printed the usage text and exited
C14_Witness ==
    /\ pc = "exited"
    /\ argv = <<>>
    /\ exitCode = 0
    /\ stdout = UsageText
    /\ ops.send = 0

\* the entries that the basic values of the first n dictionary entries of
\* the reply make, in the order the decoder meets them
RECURSIVE ReplyEntriesUpTo(_)
ReplyEntriesUpTo(n) ==
    IF n = 0 THEN <<>>
    ELSE ReplyEntriesUpTo(n - 1) \o LeafEntriesOf(reply[n].key, reply[n].value)

\* how many times the store reported that it is full
FullReports ==
    Cardinality({i \in 1..Len(stderr) :
                    stderr[i] = Printf("ERROR: metadata array is full\n", <<>>)})

\* C15: once the dictionary entries read hold more than MAXSIZE basic
\* values, the store holds exactly the first MAXSIZE of them, in decode
\* order; the decoder still went through every later one (one insert call
\* and one report on stderr each), and the command goes on to its lookups
\* or its dump and to the release: when the process has exited, these were
\* made and the exit code is what the command returned.
C15_OverflowKeepsPrefix ==
    LET all == ReplyEntriesUpTo(Len(reply))
    IN Len(all) > MAXSIZE
       => /\ metadata.curIndex = MAXSIZE
          /\ metadata.meta = SubSeq(all, 1, MAXSIZE)
          /\ ops.insert = Len(all)
          /\ FullReports = Len(all) - MAXSIZE
          /\ pc \in {"read", "track_get_artist", "track_get_title", "track_report",
                     "track_free", "metadata_print", "metadata_free",
                     "main_return", "exited"}
          /\ pc = "exited"
                => /\ ops.free = 1
                   /\ (ops.get = 2 \/ ops.print = 1)
                   /\ exitCode = retval
                   /\ ~ErrorReported

\* the metadata command has exited on a reply of more than MAXSIZE basic
\* values, the first one dropped differing from the last one stored
C15_Witness ==
    /\ pc = "exited"
    /\ argv = <<"metadata">>
    /\ ops.print = 1
    /\ ops.free = 1
    /\ Len(stdout) = 2 * MAXSIZE
    /\ LET all == ReplyEntriesUpTo(Len(reply))
       IN /\ Len(all) > MAXSIZE
          /\ all[MAXSIZE + 1] # metadata.meta[MAXSIZE]

\* C16: in a run of the track or metadata command the store is created
\* once, empty, before anything else is done with it; one remote call is
\* made, no more, and a run that has created the store and exited has made
\* it; an insert is made only while the reply is read, after the call and
\* before any get, dump or release; a get or a dump is made only after the
\* call and before the release, and no insert is made with it.
C16_QueryLifecycleOrder ==
    /\ [](ops.init <= 1 /\ ops.send <= ops.init)
    /\ []((pc = "exited" /\ ops.init = 1) => ops.send = 1)
    /\ [][(ops'.init # ops.init)
            => (ops = NoOps /\ metadata' = init_metadata_array)]_vars
    /\ [][(ops'.insert # ops.insert)
            => /\ pc = "read"
               /\ ops.send = 1
               /\ ops.get = 0 /\ ops.print = 0 /\ ops.free = 0
               /\ ops' = [ops EXCEPT !.insert = ops'.insert]]_vars
    /\ [][(ops'.get # ops.get \/ ops'.print # ops.print)
            => /\ ops.send = 1
               /\ ops.free = 0
               /\ ops'.insert = ops.insert
               /\ ops'.free = 0]_vars

\* the track command has exited after one call, several inserts, its two
\* lookups and the release
C16_Witness ==
    /\ pc = "exited"
    /\ argv = <<"track">>
    /\ ops.init = 1
    /\ ops.send = 1
    /\ ops.insert >= 2
    /\ ops.get = 2
    /\ ops.free = 1

\* C17: a step in which a get or a dump is made leaves the store as it is,
\* whatever the result; a step in which inserts are made, and any other
\* step, leaves every entry the store holds at its position with its key,
\* kind and value, and the size does not shrink; one insert into a store
\* that is not full changes the slot at the old size and the size, nothing
\* else.
C17_StoreFrame ==
    [][/\ (ops'.get # ops.get \/ ops'.print # ops.print) => metadata' = metadata
       /\ metadata'.curIndex >= metadata.curIndex
       /\ Len(metadata'.meta) = metadata'.curIndex
       /\ SubSeq(metadata'.meta, 1, metadata.curIndex) = metadata.meta
       /\ (ops'.insert = ops.insert + 1 /\ metadata.curIndex < MAXSIZE)
             => metadata'.curIndex = metadata.curIndex + 1
       /\ (ops'.insert = ops.insert) => metadata' = metadata
      ]_vars

\* the track command has made its two lookups, the first one answered
\* WrongType, on a store of several different entries
C17_Witness ==
    /\ argv = <<"track">>
    /\ ops.get = 2
    /\ ret1 = WRONG_TYPE
    /\ metadata.curIndex >= 3
    /\ metadata.meta[1] # metadata.meta[2]
    /\ metadata.meta[2] # metadata.meta[3]

\* the metadata command has made its dump
Dumped ==
    /\ argv = <<"metadata">>
    /\ pc \in {"metadata_free", "main_return", "exited"}
    /\ ops.print = 1

\* the printf that renders the value of a store entry
ValueLine(e) ==
    CASE e.dbus_type = DBUS_TYPE_STRING -> Printf("%s\n", <<e.value>>)
      [] e.dbus_type = DBUS_TYPE_INT32 -> Printf("%d\n", <<e.value>>)
      [] e.dbus_type = DBUS_TYPE_UINT64 -> Printf("%<PRIu64>\n", <<e.value>>)
      [] OTHER -> Printf("Unsupported type\n", <<>>)

\* C18: what the dump prints is, after the reports the decoding made, one
\* record per store entry, in the order of the store: a printf with the
\* number of the entry (from 0), its kind and its key, then a printf with
\* its value if it is a string, a 32-bit integer or a 64-bit unsigned
\* integer, and with the placeholder "Unsupported type" otherwise, as for
\* the floating-point entries; the records are as many as the store has
\* entries, and the command returns 0.
C18_DumpOneRecordPerEntry ==
    Dumped
    => LET n == metadata.curIndex
           base == Len(stdout) - 2 * n
       IN /\ base >= 0
          /\ \A i \in 1..base :
                stdout[i].fmt \in {UnhandledFmt, "Reply does not have arguments!\n"}
          /\ \A i \in 1..n :
                /\ stdout[base + 2 * i - 1] =
                     Printf("Metadata item %d:\n\tdbus_type = %d\n\tkey = %s\n\tvalue = ",
                            << <<i - 1>>, <<metadata.meta[i].dbus_type>>,
                               metadata.meta[i].key >>)
                /\ stdout[base + 2 * i] = ValueLine(metadata.meta[i])
          /\ retval = 0
          /\ pc = "exited" => exitCode = 0

\* the metadata command has exited after the dump of a string, a 64-bit
\* unsigned integer and a floating-point number
C18_Witness ==
    /\ Dumped
    /\ pc = "exited"
    /\ metadata.curIndex = 3
    /\ metadata.meta[1].dbus_type = DBUS_TYPE_STRING
    /\ metadata.meta[2].dbus_type = DBUS_TYPE_UINT64
    /\ metadata.meta[3].dbus_type = DBUS_TYPE_DOUBLE
    /\ Len(stdout) = 6
    /\ stdout[4].fmt = "%<PRIu64>\n"
    /\ stdout[6] = Printf("Unsupported type\n", <<>>)

\* the dictionary entries read under key k hold no basic value, and one of
\* them is an array
OnlyEmptyContainers(k) ==
    /\ \E i \in 1..Len(reply) :
          reply[i].key = k /\ reply[i].value.type = DBUS_TYPE_ARRAY
    /\ \A i \in 1..Len(reply) :
          reply[i].key = k => LeafPrimitives(reply[i].value) = <<>>

\* C19: reading a dictionary entry whose value holds no basic value (an
\* empty array, an array of empty arrays and of values of unrecognized
\* kinds) leaves the store as it is; when that is all the reply holds
\* under key K, the store has no entry of key K and a get of K returns
\* NotFound and writes nothing whatever the expected kind; for K the artist
\* or the title, the track command then writes its diagnostic, prints no
\* track line and returns 1.
C19_EmptyContainersLeaveNoTrace ==
    /\ [][(reply' # reply /\ LeafPrimitives(variant') = <<>>)
            => metadata' = metadata]_vars
    /\ [](\A k \in Keys :
            OnlyEmptyContainers(k)
            => /\ KeyIndexes(metadata, k) = {}
               /\ \A t \in QueryTypes :
                     get_value(metadata, k, t) =
                        [ret |-> VALUE_NOT_FOUND, outValue |-> <<>>]
               /\ TrackReported
                     => /\ stderr # <<>>
                        /\ stderr[Len(stderr)] = CouldNotRead
                        /\ \A i \in 1..Len(stdout) : stdout[i].fmt = UnhandledFmt
                        /\ retval = 1
                        /\ pc = "exited" => exitCode = 1)

\* the track command has exited with 1 on a reply whose artist is the empty
\* array and whose title is a string
C19_Witness ==
    /\ TrackReported
    /\ pc = "exited"
    /\ Len(reply) = 2
    /\ reply[1] = [key |-> XesamArtist, value |-> Array(<<>>)]
    /\ reply[2].key = XesamTitle
    /\ reply[2].value.type = DBUS_TYPE_STRING
    /\ ret1 = VALUE_NOT_FOUND
    /\ ret2 = VALUE_FOUND
    /\ exitCode = 1
    /\ stderr = <<CouldNotRead>>

\* the argument is neither "track" nor "metadata"
UnsupportedCommand == argv # <<>> /\ argv[1] \notin {"track", "metadata"}

\* C20 as stated: with an argument that is neither "track" nor "metadata"
\* the program makes no remote call and creates and touches no store,
\* prints the message of the unsupported command and the usage text, and
\* exits with 0.
C20_UnsupportedCommandExitsZero ==
    UnsupportedCommand
    => /\ ops = NoOps
       /\ metadata = init_metadata_array
       /\ pc = "exited"
             => /\ stdout = <<Printf("Command not supported.\n", <<>>)>> \o UsageText
                /\ exitCode = 0

\* C20 amended: the same, for the runs in which the connection to the bus
\* is obtained; when it is not, the program has exited before the dispatch,
\* with 1 and the diagnostic of the error, and nothing on stdout.
C20_UnsupportedCommandAfterConnect ==
    UnsupportedCommand
    => /\ ops = NoOps
       /\ metadata = init_metadata_array
       /\ reply = <<>>
       /\ (pc = "exited" /\ ~ErrorReported)
             => /\ stdout = <<Printf("Command not supported.\n", <<>>)>> \o UsageText
                /\ stderr = <<>>
                /\ exitCode = 0
       /\ (pc = "exited" /\ ErrorReported) => (stdout = <<>> /\ exitCode = 1)

\* the program has exited with 0 on an unsupported command
C20_Witness ==
    /\ pc = "exited"
    /\ UnsupportedCommand
    /\ exitCode = 0
    /\ Len(stdout) = 4
    /\ stdout[1] = Printf("Command not supported.\n", <<>>)
    /\ ops.send = 0
====
